---- MODULE Spec2Model ----
(***************************************************************************)
(* A model of mininip: the escape codec (dump_str / parse_str), its        *)
(* tokenizer (TokenIterator) and the line parser (Parser).                 *)
(*                                                                         *)
(* A string is a sequence of Unicode scalar values (natural numbers); a    *)
(* byte offset into a string counts the UTF-8 bytes of the characters      *)
(* before it, as Rust's str indices do.  Option<T> is a sequence of length *)
(* 0 (None) or 1 (Some).                                                   *)
(***************************************************************************)
EXTENDS Naturals, Integers, Sequences, FiniteSets, TLC

VARIABLES
    content,      \* codec: the &str handed to dump_str / parse_str
    op,           \* codec: the operation applied to content ("none" before)
    out,          \* codec: what the operation returned
    variables,    \* Parser.variables: HashMap<Identifier, Value>
    cur_section,  \* Parser.cur_section: Option<String>
    line,         \* the line handed to the last parse_line call
    result,       \* what the last parse_line call returned
    calls,        \* number of parse_line calls made so far
    lastDecl,     \* history: Some(line) of the last section line that returned Ok
    identObj,     \* the Identifier under test: None before Identifier::new
    identCall,    \* the last call made on it, its arguments and whether it panicked
    tree,         \* Dumper.tree: HashMap<Option<String>, Vec<String>>
    dumped,       \* history: the (identifier, value) couples given to Dumper::dump
    generated     \* Some(text) once Dumper::generate has returned

vars == <<content, op, out, variables, cur_section, line, result, calls, lastDecl,
          identObj, identCall, tree, dumped, generated>>
codecVars == <<content, op, out>>
parserVars == <<variables, cur_section, line, result, calls, lastDecl>>
identVars == <<identObj, identCall>>
dumperVars == <<tree, dumped, generated>>

----------------------------------------------------------------------------
(* Characters *)

ChNul == 0
ChBel == 7
ChBs == 8
ChTab == 9
ChLf == 10
ChCr == 13
ChSpace == 32
ChDQuote == 34
ChHash == 35
ChSQuote == 39
ChZero == 48
ChColon == 58
ChSemi == 59
ChEq == 61
ChLBracket == 91
ChBackslash == 92
ChRBracket == 93
ChUnderscore == 95
ChLowerA == 97
ChLowerB == 98
ChLowerN == 110
ChLowerP == 112
ChLowerR == 114
ChLowerT == 116
ChLowerX == 120
ChEAcute == 233
ChSmiley == 9786

None == <<>>
Some(v) == <<v>>

\* char::is_ascii
is_ascii(c) == c <= 127

\* char::len_utf8
len_utf8(c) ==
    IF c < 128 THEN 1
    ELSE IF c < 2048 THEN 2
    ELSE IF c < 65536 THEN 3
    ELSE 4

\* str::len: the length in bytes
RECURSIVE len(_)
len(s) == IF s = <<>> THEN 0 ELSE len_utf8(Head(s)) + len(Tail(s))

\* std::char::from_u32: None for a surrogate or a value above 0x10FFFF
from_u32(code) ==
    IF code > 1114111 \/ (code >= 55296 /\ code <= 57343)
    THEN None
    ELSE Some(code)

----------------------------------------------------------------------------
(* dump_str *)

\* one lowercase hexadecimal digit, as format!("{:x}") prints it
HexDigit(d) == IF d < 10 THEN ChZero + d ELSE ChLowerA + (d - 10)

\* format!("{:x}", n): the digits of n without padding
RECURSIVE HexDigits(_)
HexDigits(n) ==
    IF n < 16 THEN <<HexDigit(n)>>
    ELSE Append(HexDigits(n \div 16), HexDigit(n % 16))

\* left padding with '0' up to the minimal width w
RECURSIVE ZeroPad(_, _)
ZeroPad(s, w) == IF Len(s) >= w THEN s ELSE ZeroPad(<<ChZero>> \o s, w)

\* mutation of FormatX06: the width of the padding is 4
FormatX06_Width4(c) == <<ChBackslash, ChLowerX>> \o ZeroPad(HexDigits(c), 4)

\* format!("\\x{:06x}", i as u32)
FormatX06(c) == <<ChBackslash, ChLowerX>> \o ZeroPad(HexDigits(c), 6)

\* mutation of DumpChar: the arm of ';' is missing
DumpChar_NoSemi(i) ==
    CASE i = ChBackslash -> <<ChBackslash, ChBackslash>>
      [] i = ChSQuote    -> <<ChBackslash, ChSQuote>>
      [] i = ChDQuote    -> <<ChBackslash, ChDQuote>>
      [] i = ChNul       -> <<ChBackslash, ChZero>>
      [] i = ChBel       -> <<ChBackslash, ChLowerA>>
      [] i = ChBs        -> <<ChBackslash, ChLowerB>>
      [] i = ChTab       -> <<ChBackslash, ChLowerT>>
      [] i = ChCr        -> <<ChBackslash, ChLowerR>>
      [] i = ChLf        -> <<ChBackslash, ChLowerN>>
      [] i = ChHash      -> <<ChBackslash, ChHash>>
      [] i = ChEq        -> <<ChBackslash, ChEq>>
      [] i = ChColon     -> <<ChBackslash, ChColon>>
      [] OTHER           -> IF is_ascii(i) THEN <<i>> ELSE FormatX06(i)

\* the match of dump_str on one character
DumpChar(i) ==
    CASE i = ChBackslash -> <<ChBackslash, ChBackslash>>
      [] i = ChSQuote    -> <<ChBackslash, ChSQuote>>
      [] i = ChDQuote    -> <<ChBackslash, ChDQuote>>
      [] i = ChNul       -> <<ChBackslash, ChZero>>
      [] i = ChBel       -> <<ChBackslash, ChLowerA>>
      [] i = ChBs        -> <<ChBackslash, ChLowerB>>
      [] i = ChTab       -> <<ChBackslash, ChLowerT>>
      [] i = ChCr        -> <<ChBackslash, ChLowerR>>
      [] i = ChLf        -> <<ChBackslash, ChLowerN>>
      [] i = ChSemi      -> <<ChBackslash, ChSemi>>
      [] i = ChHash      -> <<ChBackslash, ChHash>>
      [] i = ChEq        -> <<ChBackslash, ChEq>>
      [] i = ChColon     -> <<ChBackslash, ChColon>>
      [] OTHER           -> IF is_ascii(i) THEN <<i>> ELSE FormatX06(i)

RECURSIVE dump_str(_)
dump_str(s) == IF s = <<>> THEN <<>> ELSE DumpChar(Head(s)) \o dump_str(Tail(s))

----------------------------------------------------------------------------
(* TokenIterator *)

CharToken(c) == [kind |-> "Char", c |-> c]
EscapeToken(s) == [kind |-> "Escape", s |-> s]

starts_with(s, p) == Len(s) >= Len(p) /\ SubSeq(s, 1, Len(p)) = p

\* TokenIterator::from
TokenIteratorFrom(chars) == [escape_seq |-> <<>>, iterator |-> chars]

\* mutation of TokenIterator::next: an escape sequence left unfinished at the
\* end of the input is dropped
RECURSIVE TokenIteratorNext_DropsPartial(_)
TokenIteratorNext_DropsPartial(self) ==
    IF self.iterator = <<>>
    THEN [token |-> None, self |-> [self EXCEPT !.escape_seq = <<>>]]
    ELSE LET i    == Head(self.iterator)
             rest == Tail(self.iterator)
         IN IF self.escape_seq # <<>>
            THEN LET seq == Append(self.escape_seq, i)
                 IN IF starts_with(seq, <<ChBackslash, ChLowerX>>) /\ len(seq) < 8
                    THEN TokenIteratorNext_DropsPartial([escape_seq |-> seq, iterator |-> rest])
                    ELSE [token |-> Some(EscapeToken(seq)),
                          self  |-> [escape_seq |-> <<>>, iterator |-> rest]]
            ELSE IF i = ChBackslash
                 THEN TokenIteratorNext_DropsPartial([escape_seq |-> <<i>>, iterator |-> rest])
                 ELSE [token |-> Some(CharToken(i)),
                       self  |-> [escape_seq |-> <<>>, iterator |-> rest]]

\* TokenIterator::next: the token (None at the end) and the iterator after the call
RECURSIVE TokenIteratorNext(_)
TokenIteratorNext(self) ==
    IF self.iterator = <<>>
    THEN IF self.escape_seq = <<>>
         THEN [token |-> None, self |-> self]
         ELSE [token |-> Some(EscapeToken(self.escape_seq)),
               self  |-> [self EXCEPT !.escape_seq = <<>>]]
    ELSE LET i    == Head(self.iterator)
             rest == Tail(self.iterator)
         IN IF self.escape_seq # <<>>
            THEN LET seq == Append(self.escape_seq, i)
                 IN IF starts_with(seq, <<ChBackslash, ChLowerX>>) /\ len(seq) < 8
                    THEN TokenIteratorNext([escape_seq |-> seq, iterator |-> rest])
                    ELSE [token |-> Some(EscapeToken(seq)),
                          self  |-> [escape_seq |-> <<>>, iterator |-> rest]]
            ELSE IF i = ChBackslash
                 THEN TokenIteratorNext([escape_seq |-> <<i>>, iterator |-> rest])
                 ELSE [token |-> Some(CharToken(i)),
                       self  |-> [escape_seq |-> <<>>, iterator |-> rest]]

\* collect::<Vec<Token>>() on a TokenIterator
RECURSIVE Collect(_)
Collect(self) ==
    LET n == TokenIteratorNext(self)
    IN IF n.token = None THEN <<>> ELSE <<n.token[1]>> \o Collect(n.self)

Tokens(s) == Collect(TokenIteratorFrom(s))

----------------------------------------------------------------------------
(* parse_str *)

Ok(v) == [ok |-> TRUE, val |-> v]
Err(e) == [ok |-> FALSE, err |-> e]

\* mutation of FORBIDDEN: '=' is missing
FORBIDDEN_NoEq == {ChBel, ChBs, ChTab, ChCr, ChLf, ChNul, ChBackslash, ChSQuote,
                   ChDQuote, ChSemi, ChColon}

FORBIDDEN == {ChBel, ChBs, ChTab, ChCr, ChLf, ChNul, ChBackslash, ChSQuote,
              ChDQuote, ChSemi, ChColon, ChEq}

\* char::to_digit(16)
to_digit16(c) ==
    IF c >= ChZero /\ c <= ChZero + 9 THEN Some(c - ChZero)
    ELSE IF c >= ChLowerA /\ c <= 102 THEN Some(c - ChLowerA + 10)
    ELSE IF c >= 65 /\ c <= 70 THEN Some(c - 65 + 10)
    ELSE None

\* the digit loop of u32::from_str_radix(_, 16), acc being the value read so far
\* (the at most 6 digits of an escape sequence never overflow a u32)
RECURSIVE RadixDigits(_, _)
RadixDigits(digits, acc) ==
    IF digits = <<>> THEN Some(acc)
    ELSE LET d == to_digit16(Head(digits))
         IN IF d = None THEN None
            ELSE RadixDigits(Tail(digits), acc * 16 + d[1])

\* u32::from_str_radix(src, 16): an empty string and a lone sign are errors,
\* a leading '+' is skipped, and every remaining character must be a digit
from_str_radix16(src) ==
    IF src = <<>> THEN None
    ELSE IF Len(src) = 1 /\ Head(src) \in {43, 45} THEN None
    ELSE IF Head(src) = 43 THEN RadixDigits(Tail(src), 0)
    ELSE RadixDigits(src, 0)

\* mutation of Unescape: an unknown two-character escape yields its second character
Unescape_Lenient(escape) ==
    IF len(escape) = 8
    THEN LET code == from_str_radix16(SubSeq(escape, 3, Len(escape)))
         IN IF code = None THEN None ELSE from_u32(code[1])
    ELSE IF Len(escape) = 2 THEN Some(escape[2])
    ELSE None

\* the match of parse_str on one escape sequence: the character to push, or None
Unescape(escape) ==
    CASE escape = <<ChBackslash, ChLowerA>>    -> Some(ChBel)
      [] escape = <<ChBackslash, ChLowerB>>    -> Some(ChBs)
      [] escape = <<ChBackslash, ChLowerT>>    -> Some(ChTab)
      [] escape = <<ChBackslash, ChLowerR>>    -> Some(ChCr)
      [] escape = <<ChBackslash, ChLowerN>>    -> Some(ChLf)
      [] escape = <<ChBackslash, ChZero>>      -> Some(ChNul)
      [] escape = <<ChBackslash, ChBackslash>> -> Some(ChBackslash)
      [] escape = <<ChBackslash, ChSQuote>>    -> Some(ChSQuote)
      [] escape = <<ChBackslash, ChDQuote>>    -> Some(ChDQuote)
      [] escape = <<ChBackslash, ChSemi>>      -> Some(ChSemi)
      [] escape = <<ChBackslash, ChColon>>     -> Some(ChColon)
      [] escape = <<ChBackslash, ChEq>>        -> Some(ChEq)
      [] OTHER ->
            IF len(escape) = 8
            THEN LET code == from_str_radix16(SubSeq(escape, 3, Len(escape)))
                 IN IF code = None THEN None ELSE from_u32(code[1])
            ELSE None

\* the token loop of parse_str, new being the string built so far
RECURSIVE ParseLoop(_, _)
ParseLoop(iter, new) ==
    LET n == TokenIteratorNext(iter)
    IN IF n.token = None THEN Ok(new)
       ELSE LET i == n.token[1]
            IN IF i.kind = "Char"
               THEN IF i.c \in FORBIDDEN
                    THEN Err("()")
                    ELSE ParseLoop(n.self, Append(new, i.c))
               ELSE LET c == Unescape(i.s)
                    IN IF c = None
                       THEN Err("()")
                       ELSE ParseLoop(n.self, Append(new, c[1]))

\* mutation of parse_str: the check for non-ASCII characters is missing
parse_str_NoAsciiCheck(s) == ParseLoop(TokenIteratorFrom(s), <<>>)

parse_str(s) ==
    IF \E k \in 1..Len(s) : ~is_ascii(s[k])
    THEN Err("()")
    ELSE ParseLoop(TokenIteratorFrom(s), <<>>)

----------------------------------------------------------------------------
(* str helpers: indices are byte offsets *)

\* char::is_whitespace (the Unicode White_Space property)
is_whitespace(c) ==
    \/ (c >= 9 /\ c <= 13)
    \/ c \in {32, 133, 160, 5760, 8232, 8233, 8239, 8287, 12288}
    \/ (c >= 8192 /\ c <= 8202)

\* the byte offset of the k-th character of s (of the end of s for k = Len(s) + 1)
ByteOffset(s, k) == len(SubSeq(s, 1, k - 1))

\* str::is_char_boundary
is_char_boundary(s, b) == \E k \in 1..(Len(s) + 1) : ByteOffset(s, k) = b

\* the position of the character that starts at byte offset b, a char boundary
CharPos(s, b) == CHOOSE k \in 1..(Len(s) + 1) : ByteOffset(s, k) = b

\* &s[a..b]
Slice(s, a, b) == SubSeq(s, CharPos(s, a), CharPos(s, b) - 1)

\* the byte offset of the first character of s whose position is in the set
\* hits, as str::find returns it
FirstMatch(s, hits) ==
    IF hits = {} THEN None
    ELSE Some(ByteOffset(s, CHOOSE k \in hits : \A j \in hits : k <= j))

\* str::find(c) for a character c
find(s, c) == FirstMatch(s, {k \in 1..Len(s) : s[k] = c})

\* str::find(char::is_whitespace)
find_whitespace(s) == FirstMatch(s, {k \in 1..Len(s) : is_whitespace(s[k])})

RECURSIVE trim_start(_)
trim_start(s) ==
    IF s # <<>> /\ is_whitespace(Head(s)) THEN trim_start(Tail(s)) ELSE s

RECURSIVE trim_end(_)
trim_end(s) ==
    IF s # <<>> /\ is_whitespace(s[Len(s)])
    THEN trim_end(SubSeq(s, 1, Len(s) - 1))
    ELSE s

trim(s) == trim_end(trim_start(s))

----------------------------------------------------------------------------
(* Identifier *)

is_ascii_alphabetic(c) == (c >= 65 /\ c <= 90) \/ (c >= 97 /\ c <= 122)
is_ascii_alphanumeric(c) == is_ascii_alphabetic(c) \/ (c >= 48 /\ c <= 57)

\* mutation of Identifier::is_valid: the text is not trimmed
is_valid_NoTrim(ident) ==
    /\ ident # <<>>
    /\ is_ascii(ident[1]) /\ is_ascii_alphabetic(ident[1])
    /\ \A k \in 2..Len(ident) :
          ~(~is_ascii(ident[k]) \/ (~is_ascii_alphanumeric(ident[k]) /\ ident[k] # ChUnderscore))

\* Identifier::is_valid (on ASCII, char::is_alphabetic and is_alphanumeric
\* are the ASCII classes)
is_valid(ident) ==
    LET t == trim(ident)
    IN /\ t # <<>>
       /\ is_ascii(t[1]) /\ is_ascii_alphabetic(t[1])
       /\ \A k \in 2..Len(t) :
             ~(~is_ascii(t[k]) \/ (~is_ascii_alphanumeric(t[k]) /\ t[k] # ChUnderscore))

\* Identifier::new: None when one of its assertions fails
Identifier_new(section, name) ==
    IF (section # None /\ ~is_valid(section[1])) \/ ~is_valid(name)
    THEN None
    ELSE Some([section |-> section, name |-> name])

\* what a call on an Identifier gives: the Identifier afterwards, and whether
\* an assertion failed
Returned(self) == [self |-> self, panicked |-> FALSE]
Panicked(self) == [self |-> self, panicked |-> TRUE]

\* mutation of Identifier::change_name: the name is not checked
change_name_Unchecked(self, name) ==
    Returned([self EXCEPT !.name = name])

\* Identifier::change_name
change_name(self, name) ==
    IF ~is_valid(name) THEN Panicked(self)
    ELSE Returned([self EXCEPT !.name = name])

\* Identifier::change_section
change_section(self, section) ==
    IF section # None /\ ~is_valid(section[1]) THEN Panicked(self)
    ELSE Returned([self EXCEPT !.section = section])

----------------------------------------------------------------------------
(* errors *)

OkUnit == [tag |-> "Ok"]
Panic(where) == [tag |-> "Panic", at |-> where]
Error(kind, fields) == [tag |-> "Err", kind |-> kind, fields |-> fields]

\* nth_char: None when it panics
nth_char(string, index) ==
    IF ~(len(string) > index) THEN None
    ELSE IF is_char_boundary(string, index)
    THEN Some(string[CharPos(string, index)])
    ELSE None

\* error_kinds::ExpectedIdentifier::new
ExpectedIdentifier_new(l, index) ==
    IF len(l) > index
    THEN Error("ExpectedIdentifier", [line |-> l, index |-> index])
    ELSE Panic("ExpectedIdentifier::new")

\* error_kinds::ExpectedToken::new
ExpectedToken_new(l, index, tokens) ==
    IF len(l) > index
    THEN Error("ExpectedToken", [line |-> l, index |-> index, tokens |-> tokens])
    ELSE Panic("ExpectedToken::new")

\* error_kinds::ExpectedEscape::new
ExpectedEscape_new(l, index, replace) ==
    LET token == nth_char(l, index)
    IN IF token = None
       THEN Panic("nth_char")
       ELSE Error("ExpectedEscape", [line |-> l, index |-> index, token |-> token[1],
                                     replace |-> replace])

\* error_kinds::UnexpectedToken::new
UnexpectedToken_new(l, index) ==
    LET token == nth_char(l, index)
    IN IF token = None
       THEN Panic("nth_char")
       ELSE Error("UnexpectedToken", [line |-> l, index |-> index, token |-> token[1]])

\* error_kinds::InvalidIdentifier::new; identifier is always a slice of l here
InvalidIdentifier_new(l, identifier) ==
    IF ~is_valid(identifier)
    THEN Error("InvalidIdentifier", [line |-> l, ident |-> identifier])
    ELSE Panic("InvalidIdentifier::new")

----------------------------------------------------------------------------
(* Parser *)

\* mutation of HashMap::insert: an entry already present keeps its value
Insert_KeepFirst(map, key, value) ==
    [k \in DOMAIN map \cup {key} |-> IF k \in DOMAIN map THEN map[k] ELSE value]

\* HashMap::insert
Insert(map, key, value) ==
    [k \in DOMAIN map \cup {key} |-> IF k = key THEN value ELSE map[k]]

\* Parser::new
Parser_new == [variables |-> [k \in {} |-> <<>>], cur_section |-> None]

\* the scan of ignore_comment from character position k on: the byte offset
\* where the comment starts, or -1 when the assertion on a newline fails
RECURSIVE IgnoreCommentScan(_, _, _)
IgnoreCommentScan(l, k, escaped) ==
    IF k > Len(l) THEN len(l)
    ELSE IF l[k] = ChLf THEN -1
    ELSE IF escaped THEN IgnoreCommentScan(l, k + 1, FALSE)
    ELSE IF l[k] = ChBackslash THEN IgnoreCommentScan(l, k + 1, TRUE)
    ELSE IF l[k] = ChSemi THEN ByteOffset(l, k)
    ELSE IgnoreCommentScan(l, k + 1, FALSE)

\* mutation of ignore_comment: a backslash does not escape a ';'
ignore_comment_NoEscape(l) ==
    IF \E k \in 1..Len(l) : l[k] = ChLf THEN None
    ELSE LET semi == find(l, ChSemi)
         IN IF semi = None THEN Some(l) ELSE Some(Slice(l, 0, semi[1]))

\* mutation of ignore_comment: the ';' that starts the comment is kept
ignore_comment_KeepSemi(l) ==
    LET end == IgnoreCommentScan(l, 1, FALSE)
    IN IF end = -1 THEN None
       ELSE IF end < len(l) THEN Some(Slice(l, 0, end + 1))
       ELSE Some(l)

\* ignore_comment: None when its assertion fails
ignore_comment(l) ==
    LET end == IgnoreCommentScan(l, 1, FALSE)
    IN IF end = -1 THEN None ELSE Some(Slice(l, 0, end))

\* Parser::parse_assignment: the parser afterwards and the value returned
parse_assignment(self, l) ==
    LET equal == find(l, ChEq)
    IN IF equal = None
       THEN LET effective_line == trim_start(l)
                leading_spaces == len(l) - len(effective_line)
                ws             == find_whitespace(effective_line)
                end_of_ident   == IF ws # None THEN ws[1] ELSE len(effective_line)
            IN [self   |-> self,
                result |-> ExpectedToken_new(l, end_of_ident + leading_spaces, <<ChEq>>)]
       ELSE LET identifier == trim(Slice(l, 0, equal[1]))
                rest       == IF len(l) = equal[1] + 1
                              THEN Some(<<>>)
                              ELSE ignore_comment(Slice(l, equal[1] + 1, len(l)))
            IN IF rest = None
               THEN [self |-> self, result |-> Panic("ignore_comment")]
               ELSE IF ~is_valid(identifier)
               THEN [self |-> self, result |-> InvalidIdentifier_new(l, identifier)]
               ELSE LET value == parse_str(trim(rest[1]))
                    IN IF ~value.ok
                       THEN [self |-> self, result |-> Error("ParseStr", [line |-> l])]
                       ELSE LET key == Identifier_new(self.cur_section, identifier)
                            IN IF key = None
                               THEN [self |-> self, result |-> Panic("Identifier::new")]
                               ELSE [self   |-> [self EXCEPT !.variables =
                                                    Insert(@, key[1], value.val)],
                                     result |-> OkUnit]

\* the second loop of parse_section, from character position k on: the first
\* character after ']' that is neither whitespace nor behind a ';'
RECURSIVE ExtraToken(_, _)
ExtraToken(l, k) ==
    IF k > Len(l) \/ l[k] = ChSemi THEN None
    ELSE IF ~is_whitespace(l[k]) THEN Some(ByteOffset(l, k))
    ELSE ExtraToken(l, k + 1)

\* mutation of parse_section: cur_section is assigned before the check of the
\* text that follows ']'
parse_section_EarlySet(self, initial_line) ==
    LET l              == trim_start(initial_line)
        leading_spaces == len(initial_line) - len(l)
    IN IF l = <<>> \/ l[1] # ChLBracket
       THEN [self |-> self, result |-> Panic("parse_section")]
       ELSE LET close == find(Tail(l), ChRBracket)
                end   == IF close = None THEN 0 ELSE close[1] + 1
            IN IF end = 0
               THEN [self   |-> self,
                     result |-> ExpectedToken_new(l, leading_spaces + 1, <<ChRBracket>>)]
               ELSE IF end = 1
               THEN [self   |-> self,
                     result |-> ExpectedIdentifier_new(l, leading_spaces + 1)]
               ELSE LET section == Slice(l, 1, end)
                        n       == ExtraToken(l, CharPos(l, end) + 1)
                        set     == [self EXCEPT !.cur_section = Some(section)]
                    IN IF ~is_valid(section)
                       THEN [self |-> self, result |-> InvalidIdentifier_new(l, section)]
                       ELSE IF n # None
                       THEN [self   |-> set,
                             result |-> UnexpectedToken_new(l,
                                            leading_spaces + 2 + len(section) + n[1])]
                       ELSE [self |-> set, result |-> OkUnit]

\* Parser::parse_section: the parser afterwards and the value returned
parse_section(self, initial_line) ==
    LET l              == trim_start(initial_line)
        leading_spaces == len(initial_line) - len(l)
    IN IF l = <<>> \/ l[1] # ChLBracket
       THEN [self |-> self, result |-> Panic("parse_section")]
       ELSE LET close == find(Tail(l), ChRBracket)
                end   == IF close = None THEN 0 ELSE close[1] + 1
            IN IF end = 0
               THEN [self   |-> self,
                     result |-> ExpectedToken_new(l, leading_spaces + 1, <<ChRBracket>>)]
               ELSE IF end = 1
               THEN [self   |-> self,
                     result |-> ExpectedIdentifier_new(l, leading_spaces + 1)]
               ELSE LET section == Slice(l, 1, end)
                        n       == ExtraToken(l, CharPos(l, end) + 1)
                    IN IF ~is_valid(section)
                       THEN [self |-> self, result |-> InvalidIdentifier_new(l, section)]
                       ELSE IF n # None
                       THEN [self   |-> self,
                             result |-> UnexpectedToken_new(l,
                                            leading_spaces + 2 + len(section) + n[1])]
                       ELSE [self   |-> [self EXCEPT !.cur_section = Some(section)],
                             result |-> OkUnit]

\* mutation of parse_line: a line that starts with ';' is not skipped
parse_line_NoComment(self, l) ==
    LET effective_line == trim_start(l)
    IN IF effective_line = <<>>
       THEN [self |-> self, result |-> OkUnit]
       ELSE IF effective_line[1] = ChLBracket
       THEN parse_section(self, effective_line)
       ELSE parse_assignment(self, effective_line)

\* Parser::parse_line: the parser afterwards and the value returned
parse_line(self, l) ==
    LET effective_line == trim_start(l)
    IN IF effective_line = <<>> \/ effective_line[1] = ChSemi
       THEN [self |-> self, result |-> OkUnit]
       ELSE IF effective_line[1] = ChLBracket
       THEN parse_section(self, effective_line)
       ELSE parse_assignment(self, effective_line)

----------------------------------------------------------------------------
(* Dumper *)

\* Value::dump
Value_dump(value) == dump_str(value)

\* the order of str: byte by byte, which on UTF-8 is character by character
str_lt(a, b) ==
    \E k \in 1..(Len(b)) :
        /\ k <= Len(a) + 1
        /\ \A j \in 1..(k - 1) : a[j] = b[j]
        /\ k = Len(a) + 1 \/ a[k] < b[k]

\* v with x put before its first element that is not below x
RECURSIVE SortedInsert(_, _)
SortedInsert(v, x) ==
    IF v = <<>> THEN <<x>>
    ELSE IF str_lt(Head(v), x) THEN <<Head(v)>> \o SortedInsert(Tail(v), x)
    ELSE <<x>> \o v

\* Vec<String>::sort
RECURSIVE sort(_)
sort(v) == IF v = <<>> THEN <<>> ELSE SortedInsert(sort(Tail(v)), Head(v))

\* the elements of a set in the order an iterator over a HashMap gives them
RECURSIVE Iter(_)
Iter(S) ==
    IF S = {} THEN <<>>
    ELSE LET x == CHOOSE x \in S : TRUE IN <<x>> \o Iter(S \ {x})

\* Dumper::new
Dumper_new == [tree |-> [k \in {} |-> <<>>]]

\* Dumper::dump: the Dumper afterwards
dump(self, identifier, value) ==
    LET l   == identifier.name \o <<ChEq>> \o Value_dump(value)
        key == identifier.section
    IN IF key \in DOMAIN self.tree
       THEN [self EXCEPT !.tree[key] = Append(@, l)]
       ELSE [self EXCEPT !.tree = Insert(@, key, <<l>>)]

\* each line of v followed by a newline
RECURSIVE PushLines(_)
PushLines(v) ==
    IF v = <<>> THEN <<>> ELSE Head(v) \o <<ChLf>> \o PushLines(Tail(v))

\* the header of each section of the sequence, its sorted lines and a newline
RECURSIVE PushSections(_, _)
PushSections(self, sections) ==
    IF sections = <<>> THEN <<>>
    ELSE LET i == Head(sections)
         IN <<ChLBracket>> \o i \o <<ChRBracket, ChLf>>
            \o PushLines(sort(self.tree[Some(i)])) \o <<ChLf>>
            \o PushSections(self, Tail(sections))

\* String::pop
pop(s) == IF s = <<>> THEN s ELSE SubSeq(s, 1, Len(s) - 1)

\* mutation of Dumper::generate: the last character is not removed
generate_NoPop(self) ==
    LET sections == sort(Iter({key[1] : key \in DOMAIN self.tree \ {None}}))
        globals  == IF None \in DOMAIN self.tree
                    THEN PushLines(sort(self.tree[None])) \o <<ChLf>>
                    ELSE <<>>
    IN globals \o PushSections(self, sections)

\* Dumper::generate
generate(self) ==
    LET sections == sort(Iter({key[1] : key \in DOMAIN self.tree \ {None}}))
        globals  == IF None \in DOMAIN self.tree
                    THEN PushLines(sort(self.tree[None])) \o <<ChLf>>
                    ELSE <<>>
    IN pop(globals \o PushSections(self, sections))

----------------------------------------------------------------------------
(* datas/tree: the Cache of a Tree *)

\* keys.entry(section_name): push on an occupied entry, insert of a vector of
\* one name on a vacant one
PushKey(keys, section_name, name) ==
    [k \in DOMAIN keys \cup {section_name} |->
        IF k # section_name THEN keys[k]
        ELSE IF section_name \in DOMAIN keys THEN Append(keys[k], name)
        ELSE <<name>>]

\* the loop of Cache::from over data.keys(), order being the order in which
\* the iterator of the HashMap gives the keys
RECURSIVE CacheScan(_, _, _)
CacheScan(order, sections, keys) ==
    IF order = <<>> THEN [sections |-> sections, keys |-> keys]
    ELSE LET i == Head(order)
             section_name == i.section
         IN CacheScan(Tail(order),
                      IF section_name \notin DOMAIN keys /\ section_name # None
                      THEN Append(sections, section_name[1])
                      ELSE sections,
                      PushKey(keys, section_name, i.name))

\* mutation of Cache::from: nothing is sorted
Cache_from_Unsorted(order) == CacheScan(order, <<>>, [k \in {} |-> <<>>])

\* Cache::from(&data)
Cache_from(order) ==
    LET c == CacheScan(order, <<>>, [k \in {} |-> <<>>])
        sorted == sort(c.sections)
    IN [sections |-> sorted,
        keys |-> [k \in DOMAIN c.keys |->
                    IF k = None \/ \E j \in 1..Len(sorted) : k = Some(sorted[j])
                    THEN sort(c.keys[k])
                    ELSE c.keys[k]]]

----------------------------------------------------------------------------
(* lib.rs: the section iterator of the C interface. A handle is the number of
   an allocation: heap[h] is the number of times allocation h has been given
   to ffi_destroy. A MininipSectionIterator is
   [iterator, last_allocated]; iterator is the number of sections its
   SectionIterator has still to yield *)

NULL == 0

\* ffi_export(obj): a new allocation
ffi_export(heap) == [heap |-> Append(heap, 0), ptr |-> Len(heap) + 1]

\* ffi_destroy(ptr)
ffi_destroy(heap, ptr) == [heap EXCEPT ![ptr] = @ + 1]

\* SectionIterator::next: Some section while there is one left
SectionIterator_next(iterator) ==
    IF iterator > 0
    THEN [self |-> iterator - 1, val |-> Some("section")]
    ELSE [self |-> iterator, val |-> None]

\* mininipNextOwnedSection(iter)
mininipNextOwnedSection(iter, heap) ==
    LET freed == IF iter.last_allocated # NULL
                 THEN ffi_destroy(heap, iter.last_allocated)
                 ELSE heap
        n == SectionIterator_next(iter.iterator)
        e == ffi_export(freed)
    IN IF n.val # None
       THEN [iter |-> [iterator |-> n.self, last_allocated |-> NULL],
             heap |-> e.heap, ret |-> e.ptr]
       ELSE [iter |-> [iterator |-> n.self, last_allocated |-> NULL],
             heap |-> freed, ret |-> NULL]

\* mutation of mininipNextSection: the handle is not kept in last_allocated
mininipNextSection_Forget(iter, heap) == mininipNextOwnedSection(iter, heap)

\* mininipNextSection(iter)
mininipNextSection(iter, heap) ==
    LET r == mininipNextOwnedSection(iter, heap)
    IN [r EXCEPT !.iter.last_allocated = r.ret]

\* mininipDestroySectionIterator(ptr): drop of the MininipSectionIterator
mininipDestroySectionIterator(iter, heap) ==
    IF iter.last_allocated # NULL
    THEN ffi_destroy(heap, iter.last_allocated)
    ELSE heap

----------------------------------------------------------------------------
(* Bounds and input sets *)

\* longest string drawn over the whole codec alphabet
MaxLen == 3
\* longest text put before and after a sample escape sequence
MaxFrame == 1
\* the number of characters that follow "\x" in a complete escape sequence
HexLen == 6

\* all strings over alphabet a of length at most n
Strs(a, n) == UNION {[1..k -> a] : k \in 0..n}

Special13 == {ChBackslash, ChSQuote, ChDQuote, ChNul, ChBel, ChBs, ChTab, ChCr,
              ChLf, ChSemi, ChHash, ChEq, ChColon}

\* the special characters, four plain ones, and U+00E9, U+263A, U+1F600
CodecAlphabet == Special13 \cup {ChLowerA, ChLowerX, ChZero, ChLowerP,
                                 ChEAcute, ChSmiley, 128512}

\* the characters 0 1 d f F + g
HexAlphabet == {ChZero, 49, 100, 102, 70, 43, 103}

FrameAlphabet == {ChLowerA, ChEq, ChBackslash, ChEAcute, ChLowerX}

SampleEscapes ==
    { <<ChBackslash, ChLowerX, ChZero, ChZero, 50, 54, 51, ChLowerA>>,      \* \x00263a
      <<ChBackslash, ChLowerX, ChZero, ChZero, 50, 54, 51, 65>>,            \* \x00263A
      <<ChBackslash, ChLowerX, 43, ChZero, ChZero, ChZero, 52, 49>>, \* \x+00041
      <<ChBackslash, ChLowerX, ChZero, ChZero, 100, 56, ChZero, ChZero>>,  \* \x00d800
      <<ChBackslash, ChLowerX, ChZero, ChZero, 52, 49>>,             \* \x0041
      <<ChBackslash, ChSemi>> }                                             \* \;

CodecInputs ==
    Strs(CodecAlphabet, MaxLen)
    \cup { <<ChBackslash, ChLowerX>> \o h : h \in Strs(HexAlphabet, HexLen) }
    \cup { p \o e \o q : p \in Strs(FrameAlphabet, MaxFrame),
                         e \in SampleEscapes,
                         q \in Strs(FrameAlphabet, MaxFrame) }

\* longest line drawn over the whole line alphabet
MaxLineLen == 2
\* number of parse_line calls made on one Parser
MaxCalls == 3

LineAlphabet == {ChLowerA, ChEq, ChLBracket, ChRBracket}

\* further lines: whitespace, comments, escapes, non-ASCII text, trailing tokens
ExtraLines ==
    {
      <<32>>,  \* a space
      <<9, 32>>,  \* a tab and a space
      <<59>>,  \* ;
      <<32, 59, 97>>,  \* a space and ;a
      <<59, 91, 97, 93>>,  \* ;[a]
      <<97, 59>>,  \* a;
      <<61, 59>>,  \* =;
      <<32, 61>>,  \* a space and =
      <<97, 61, 32>>,  \* a= and a space
      <<97, 61, 97>>,  \* a=a
      <<91, 97, 93>>,  \* [a]
      <<97, 61, 59>>,  \* a=;
      <<97, 32, 61>>,  \* a =
      <<91, 97, 32>>,  \* [a followed by a space
      <<97, 61, 92, 59>>,  \* a=\;
      <<97, 61, 97, 59, 99>>,  \* a=a;c
      <<97, 32, 61, 32, 97, 32>>,  \* a = a followed by a space
      <<32, 97, 61, 97>>,  \*  a=a
      <<97, 61, 92, 120, 48, 48, 48, 48, 101, 57>>,  \* a=\x0000e9
      <<97, 61, 97, 59, 233>>,  \* a=a;{e9}
      <<233, 61, 97>>,  \* {e9}=a
      <<97, 61, 233>>,  \* a={e9}
      <<97, 61, 97, 61, 97>>,  \* a=a=a
      <<97, 61, 92, 112>>,  \* a=\p
      <<97, 61, 97, 92, 92>>,  \* a=a\\
      <<97, 32, 98, 61, 97>>,  \* a b=a
      <<98, 61, 97>>,  \* b=a
      <<97, 49, 61, 97>>,  \* a1=a
      <<49, 97, 61, 97>>,  \* 1a=a
      <<97, 95, 61, 98>>,  \* a_=b
      <<97, 61, 98>>,  \* a=b
      <<98, 61>>,  \* b=
      <<97, 61, 35>>,  \* a=#
      <<97, 61, 92, 35>>,  \* a=\#
      <<97, 61, 97, 92, 59, 98, 59, 99>>,  \* a=a\;b;c
      <<97, 61, 92, 59, 99>>,  \* a=\;c
      <<97, 160, 61, 160, 98>>,  \* a{a0}={a0}b
      <<97, 61, 9, 97, 9>>,  \* a={09}a{09}
      <<91, 98, 93>>,  \* [b]
      <<91, 32, 97, 32, 93>>,  \* [ a ]
      <<91, 97, 93, 32, 59, 99>>,  \* [a] ;c
      <<91, 98, 93, 59, 99>>,  \* [b];c
      <<91, 97, 93, 32, 97>>,  \* [a] a
      <<91, 97, 93, 32, 32, 97, 32, 32, 32, 59>>,  \* [a]  a   ;
      <<91, 97, 93, 93>>,  \* [a]]
      <<91, 97, 49, 93>>,  \* [a1]
      <<91, 49, 97, 93>>,  \* [1a]
      <<91, 97, 32, 98, 93>>,  \* [a b]
      <<91, 233, 93>>,  \* [{e9}]
      <<91, 97, 93, 59, 233>>,  \* [a];{e9}
      <<91, 160, 98, 93>>,  \* [{a0}b]
      <<32, 91, 98, 93>>,  \*  [b]
      <<91, 97>>,  \* [a
      <<91, 98, 93, 32, 120>>,  \* [b] x
      <<91, 97, 93, 233>>,  \* [a]{e9}
      <<97, 98>>,  \* ab
      <<97, 32, 98>>,  \* a b
      <<233>>,  \* {e9}
      <<97, 233>>,  \* a{e9}
      <<97, 32, 59>>,  \* a ;
      <<98>>   \* b
    }

Lines == Strs(LineAlphabet, MaxLineLen) \cup ExtraLines


\* longest text drawn over the whole text alphabet
MaxTextLen == 4

\* the characters a 1 _ space ; \ U+00E9 and the newline
TextAlphabet == {ChLowerA, 49, ChUnderscore, ChSpace, ChSemi, ChBackslash, ChEAcute, ChLf}

\* further texts: the characters next to the ASCII letters and digits, alone
\* and after a letter; letters and digits outside ASCII; Unicode whitespace
\* around a name; comments after escaped and unescaped ';'
TextSamples ==
    { <<c>> : c \in {47, 48, 57, 58, 64, 65, 90, 91, 96, 97, 122, 123, 170, 1633} }
    \cup { <<ChLowerA, c>> : c \in {47, 48, 57, 58, 64, 65, 90, 91, 96, 97, 122, 123, 170, 1633} }
    \cup { <<160, ChTab, 90, ChUnderscore, 57, 122, ChCr, 8195>>,   \* U+00A0 tab Z_9z CR U+2003
           <<ChLowerA, ChSpace, ChLowerB>>,                           \* a b
           <<118, 97, 108, ChBackslash, ChSemi, ChLowerX, ChSemi, 99>>,   \* val\;x;c
           <<ChLowerA, ChBackslash, ChBackslash, ChSemi, ChLowerB>>,  \* a\\;b
           <<ChLowerA, ChBackslash, ChBackslash, ChBackslash, ChSemi, ChLowerB, ChSemi>>,  \* a\\\;b;
           <<ChLowerA, ChSemi, ChEAcute, ChSmiley>>,                  \* a;U+00E9 U+263A
           <<ChLowerA, ChSemi, ChLowerB, ChLf>>,                      \* a;b then a newline
           <<ChLowerA, ChBackslash, ChLf, ChSemi>> }                  \* a\ then a newline and ;

TextInputs == Strs(TextAlphabet, MaxTextLen) \cup TextSamples

\* the names and sections given to the Identifier calls:
\* a, b1, a_, " a", "a" and a newline, the empty text, 1, "a b", U+00E9
IdentTexts ==
    { <<ChLowerA>>, <<ChLowerB, 49>>, <<ChLowerA, ChUnderscore>>, <<ChSpace, ChLowerA>>,
      <<ChLowerA, ChLf>>, <<>>, <<49>>, <<ChLowerA, ChSpace, ChLowerB>>, <<ChEAcute>> }

IdentSections == {None} \cup {Some(t) : t \in IdentTexts}

\* number of Dumper::dump calls made on one Dumper
MaxDumps == 3

\* the identifiers dumped: the global section, sections b and a; names a, a1
\* and "a" followed by a newline
DumpIdentifiers ==
    { Identifier_new(s, n)[1] :
        s \in {None, Some(<<ChLowerB>>), Some(<<ChLowerA>>)},
        n \in {<<ChLowerA>>, <<ChLowerA, 49>>, <<ChLowerA, ChLf>>} }

\* the values dumped: 1, " 1", # and ";" followed by U+00E9
DumpValues == { <<49>>, <<ChSpace, 49>>, <<ChHash>>, <<ChSemi, ChEAcute>> }

\* longest line given to the constructors of the errors
MaxErrLen == 2

\* the lines given to them: characters of one, two and three bytes
ErrorLines == Strs({ChLowerA, ChEAcute, ChSmiley}, MaxErrLen)

\* longest text tokenized over the whole token alphabet
MaxTokLen == 5
\* longest text put after "\x"
MaxTailLen == 7

\* the texts tokenized: all texts over \ x a U+00E9, and "\x" followed by
\* texts over a U+00E9 \
TokenInputs ==
    Strs({ChBackslash, ChLowerX, ChLowerA, ChEAcute}, MaxTokLen)
    \cup { <<ChBackslash, ChLowerX>> \o t :
             t \in Strs({ChLowerA, ChEAcute, ChBackslash}, MaxTailLen) }

\* number of keys put into the HashMap a Cache is made from
MaxKeys == 4

\* the keys put into it: the global section, sections b and a; names b, a1, a
CacheIdentifiers ==
    { Identifier_new(s, n)[1] :
        s \in {None, Some(<<ChLowerB>>), Some(<<ChLowerA>>)},
        n \in {<<ChLowerB>>, <<ChLowerA, 49>>, <<ChLowerA>>} }

\* the orders in which an iterator may give the elements of S
Orders(S) ==
    { f \in [1..Cardinality(S) -> S] : \A x \in S : \E k \in DOMAIN f : f[k] = x }

\* sections of the tree iterated on
MaxSections == 3
\* calls of mininipNextSection and mininipNextOwnedSection on one iterator
MaxIterCalls == 4

NoCall == [op |-> "none"]

EmptyMap == [k \in {} |-> <<>>]

----------------------------------------------------------------------------
(* The codec: each operation applied once to a drawn input *)

CodecInit ==
    /\ content \in CodecInputs
    /\ op = "none"
    /\ out = <<>>
    /\ variables = EmptyMap
    /\ cur_section = None
    /\ line = <<>>
    /\ result = "none"
    /\ calls = 0
    /\ lastDecl = None
    /\ identObj = None
    /\ identCall = NoCall
    /\ tree = Dumper_new.tree
    /\ dumped = <<>>
    /\ generated = None

\* dump_str(content)
DumpStr ==
    /\ op = "none"
    /\ op' = "dump_str"
    /\ out' = dump_str(content)
    /\ UNCHANGED <<content, parserVars, identVars, dumperVars>>

\* parse_str(content)
ParseStr ==
    /\ op = "none"
    /\ op' = "parse_str"
    /\ out' = parse_str(content)
    /\ UNCHANGED <<content, parserVars, identVars, dumperVars>>

\* parse_str(&dump_str(content)), as the test parse_reverses_dump does
ParseReversesDump ==
    /\ op = "none"
    /\ op' = "parse_reverses_dump"
    /\ out' = parse_str(dump_str(content))
    /\ UNCHANGED <<content, parserVars, identVars, dumperVars>>

CodecNext == DumpStr \/ ParseStr \/ ParseReversesDump

CodecSpec == CodecInit /\ [][CodecNext]_vars

----------------------------------------------------------------------------
(* Properties of the codec *)

\* the escape letter the format's table gives to each special character
EscapeLetter(c) ==
    CASE c = ChBackslash -> ChBackslash
      [] c = ChSQuote    -> ChSQuote
      [] c = ChDQuote    -> ChDQuote
      [] c = ChNul       -> ChZero
      [] c = ChBel       -> ChLowerA
      [] c = ChBs        -> ChLowerB
      [] c = ChTab       -> ChLowerT
      [] c = ChCr        -> ChLowerR
      [] c = ChLf        -> ChLowerN
      [] c = ChSemi      -> ChSemi
      [] c = ChHash      -> ChHash
      [] c = ChEq        -> ChEq
      [] c = ChColon     -> ChColon

RECURSIVE Pow16(_)
Pow16(k) == IF k = 0 THEN 1 ELSE 16 * Pow16(k - 1)

LowerHex == <<48, 49, 50, 51, 52, 53, 54, 55, 56, 57, 97, 98, 99, 100, 101, 102>>

\* the k-th of the 6 hexadecimal digits of code point c, most significant first
SixHex(c) == [k \in 1..6 |-> LowerHex[((c \div Pow16(6 - k)) % 16) + 1]]

\* what the format prescribes for one character
Encoded(c) ==
    IF c \in Special13 THEN <<ChBackslash, EscapeLetter(c)>>
    ELSE IF c <= 127 THEN <<c>>
    ELSE <<ChBackslash, ChLowerX>> \o SixHex(c)

RECURSIVE EncodedStr(_)
EncodedStr(s) == IF s = <<>> THEN <<>> ELSE Encoded(Head(s)) \o EncodedStr(Tail(s))

\* C1: for every string s of Unicode scalar values, parse_str(dump_str(s))
\* returns Ok(s)
C1_RoundTrip ==
    op = "parse_reverses_dump" => out = Ok(content)

\* C2: dump_str maps the input character by character, in order: a special
\* character becomes its two-character escape, any other ASCII character is
\* copied, a non-ASCII character becomes \x and 6 lowercase hex digits
C2_DumpCharByChar ==
    op = "dump_str" => out = EncodedStr(content)

C2_Witness ==
    /\ op = "dump_str"
    /\ content = <<ChSemi, ChLowerA, ChSmiley>>
    /\ out = <<ChBackslash, ChSemi, ChLowerA,
               ChBackslash, ChLowerX, 48, 48, 50, 54, 51, 97>>

\* the characters parse_str forbids, the backslash left out
ForbiddenRaw == {ChBel, ChBs, ChTab, ChCr, ChLf, ChNul, ChSQuote, ChDQuote,
                 ChSemi, ChColon, ChEq}

\* the number of consecutive backslashes that end at position j of s
RECURSIVE BackslashRun(_, _)
BackslashRun(s, j) ==
    IF j = 0 \/ s[j] # ChBackslash THEN 0 ELSE 1 + BackslashRun(s, j - 1)

\* position j of s is the second character of a two-character escape
EscapedAt(s, j) == BackslashRun(s, j - 1) % 2 = 1

\* C3: the output of dump_str is pure ASCII, and a character forbidden by
\* parse_str appears in it only as the second character of a two-character
\* backslash escape
C3_DumpAsciiSafe ==
    op = "dump_str" =>
        \A j \in 1..Len(out) :
            /\ out[j] <= 127
            /\ out[j] \in ForbiddenRaw => EscapedAt(out, j)

C3_Witness ==
    /\ op = "dump_str"
    /\ \E k \in 1..Len(content) : content[k] > 127
    /\ \E k \in 1..Len(content) : content[k] = ChBackslash
    /\ \E j \in 1..Len(out) : out[j] \in ForbiddenRaw

\* C4: parse_str returns Err for every input holding a non-ASCII character
C4_NonAsciiRejected ==
    (op = "parse_str" /\ \E k \in 1..Len(content) : content[k] > 127)
        => ~out.ok

C4_Witness ==
    /\ op = "parse_str"
    /\ content = <<ChBackslash, ChSemi, ChEAcute>>
    /\ ~out.ok

\* The units of an encoded text, read from the left: a backslash opens an
\* escape sequence of 8 characters when an 'x' follows it and of 2 otherwise
\* (cut short by the end of the text); any other character is a unit of its own.
RECURSIVE Units(_)
Units(s) ==
    IF s = <<>> THEN <<>>
    ELSE IF Head(s) # ChBackslash
    THEN <<[raw |-> TRUE, text |-> <<Head(s)>>]>> \o Units(Tail(s))
    ELSE LET want == IF Len(s) >= 2 /\ s[2] = ChLowerX THEN 8 ELSE 2
             n    == IF Len(s) < want THEN Len(s) ELSE want
         IN <<[raw |-> FALSE, text |-> SubSeq(s, 1, n)]>>
            \o Units(SubSeq(s, n + 1, Len(s)))

AllAscii(s) == \A k \in 1..Len(s) : s[k] <= 127

\* the 12 format-significant characters
Significant12 == ForbiddenRaw \cup {ChBackslash}

\* C5: parse_str returns Err when one of the 12 format-significant characters
\* occurs outside an escape sequence; every other ASCII character outside an
\* escape sequence is copied verbatim to the output
C5_RawCharacters ==
    (op = "parse_str" /\ AllAscii(content)) =>
        LET u == Units(content)
        IN /\ (\E k \in 1..Len(u) : u[k].raw /\ u[k].text[1] \in Significant12)
                  => ~out.ok
           /\ out.ok =>
                  /\ Len(out.val) = Len(u)
                  /\ \A k \in 1..Len(u) : u[k].raw => out.val[k] = u[k].text[1]

C5_Witness ==
    /\ op = "parse_str"
    /\ content = <<ChLowerA, ChEq, ChLowerA>>
    /\ ~out.ok

\* C6: for each of the 13 special characters c, parse_str applied to the
\* escape that dump_str emits for c returns Ok of the one-character string c
C6_EscapeTableBidirectional ==
    (op = "parse_reverses_dump" /\ Len(content) = 1 /\ content[1] \in Special13)
        => (out.ok /\ out.val = content)

IsHex(c) == (c >= 48 /\ c <= 57) \/ (c >= 97 /\ c <= 102) \/ (c >= 65 /\ c <= 70)

HexVal(c) == IF c <= 57 THEN c - 48 ELSE IF c >= 97 THEN c - 87 ELSE c - 55

\* the value of six hexadecimal digits
SixHexValue(h) ==
    HexVal(h[1]) * 1048576 + HexVal(h[2]) * 65536 + HexVal(h[3]) * 4096
    + HexVal(h[4]) * 256 + HexVal(h[5]) * 16 + HexVal(h[6])

IsScalar(n) == n <= 1114111 /\ ~(n >= 55296 /\ n <= 57343)

\* C7: on an 8-character sequence beginning with \x, parse_str succeeds if
\* and only if the six following characters are hexadecimal digits whose
\* value is a Unicode scalar value, and then yields exactly that character
C7_UnicodeEscape ==
    (op = "parse_str" /\ Len(content) = 8
        /\ content[1] = ChBackslash /\ content[2] = ChLowerX) =>
        LET h    == SubSeq(content, 3, 8)
            good == (\A k \in 1..6 : IsHex(h[k])) /\ IsScalar(SixHexValue(h))
        IN /\ out.ok <=> good
           /\ out.ok => out.val = <<SixHexValue(h)>>

\* the two-character escapes of the format
KnownEscapes == {<<ChBackslash, EscapeLetter(c)>> : c \in Special13}

\* C8: parse_str returns Err for every input holding an escape sequence that
\* is neither a known two-character escape nor a complete 8-character \x
\* sequence (unknown escape, lone trailing backslash, \x cut short)
C8_MalformedEscapeRejected ==
    (op = "parse_str" /\
        \E k \in 1..Len(Units(content)) :
            LET e == Units(content)[k]
            IN /\ ~e.raw
               /\ e.text \notin KnownEscapes
               /\ ~(Len(e.text) = 8 /\ e.text[2] = ChLowerX))
        => ~out.ok

C8_Witness ==
    /\ op = "parse_str"
    /\ content = <<ChLowerA, ChBackslash, ChLowerP>>
    /\ ~out.ok

----------------------------------------------------------------------------
(* The text helpers: ignore_comment and Identifier::is_valid applied once to
   a drawn text *)

TextInit ==
    /\ content \in TextInputs
    /\ op = "none"
    /\ out = <<>>
    /\ variables = EmptyMap
    /\ cur_section = None
    /\ line = <<>>
    /\ result = "none"
    /\ calls = 0
    /\ lastDecl = None
    /\ identObj = None
    /\ identCall = NoCall
    /\ tree = Dumper_new.tree
    /\ dumped = <<>>
    /\ generated = None

\* ignore_comment(content)
IgnoreComment ==
    /\ op = "none"
    /\ op' = "ignore_comment"
    /\ out' = ignore_comment(content)
    /\ UNCHANGED <<content, parserVars, identVars, dumperVars>>

\* Identifier::is_valid(content)
IsValid ==
    /\ op = "none"
    /\ op' = "is_valid"
    /\ out' = is_valid(content)
    /\ UNCHANGED <<content, parserVars, identVars, dumperVars>>

TextNext == IgnoreComment \/ IsValid

TextSpec == TextInit /\ [][TextNext]_vars

----------------------------------------------------------------------------
(* One Identifier: Identifier::new, then change_name and change_section in
   any order; a caller that catches a panic goes on with the same value *)

IdentInit ==
    /\ content = <<>>
    /\ op = "none"
    /\ out = <<>>
    /\ variables = EmptyMap
    /\ cur_section = None
    /\ line = <<>>
    /\ result = "none"
    /\ calls = 0
    /\ lastDecl = None
    /\ identObj = None
    /\ identCall = NoCall
    /\ tree = Dumper_new.tree
    /\ dumped = <<>>
    /\ generated = None

\* identObj = Identifier::new(section, name)
IdentifierNew ==
    /\ \E section \in IdentSections, name \in IdentTexts :
          LET r == Identifier_new(section, name)
          IN /\ identObj' = IF r = None THEN identObj ELSE r
             /\ identCall' = [op |-> "new", section |-> section, name |-> name,
                              panicked |-> (r = None)]
    /\ UNCHANGED <<codecVars, parserVars, dumperVars>>

\* identObj.change_name(name)
ChangeName ==
    /\ identObj # None
    /\ \E name \in IdentTexts :
          LET r == change_name(identObj[1], name)
          IN /\ identObj' = Some(r.self)
             /\ identCall' = [op |-> "change_name", name |-> name,
                              panicked |-> r.panicked]
    /\ UNCHANGED <<codecVars, parserVars, dumperVars>>

\* identObj.change_section(section)
ChangeSection ==
    /\ identObj # None
    /\ \E section \in IdentSections :
          LET r == change_section(identObj[1], section)
          IN /\ identObj' = Some(r.self)
             /\ identCall' = [op |-> "change_section", section |-> section,
                              panicked |-> r.panicked]
    /\ UNCHANGED <<codecVars, parserVars, dumperVars>>

IdentNext == IdentifierNew \/ ChangeName \/ ChangeSection

IdentSpec == IdentInit /\ [][IdentNext]_vars

----------------------------------------------------------------------------
(* One TokenIterator over the characters of a drawn text: next is called
   until it returns None *)

TokenInit ==
    /\ content \in TokenInputs
    /\ op = "none"
    /\ out = <<>>
    /\ variables = EmptyMap
    /\ cur_section = None
    /\ line = <<>>
    /\ result = "none"
    /\ calls = 0
    /\ lastDecl = None
    /\ identObj = None
    /\ identCall = NoCall
    /\ tree = Dumper_new.tree
    /\ dumped = <<>>
    /\ generated = None

\* TokenIterator::from(content.chars())
TokenFrom ==
    /\ op = "none"
    /\ op' = "TokenIterator"
    /\ out' = [self |-> TokenIteratorFrom(content), tokens |-> <<>>, ended |-> FALSE]
    /\ UNCHANGED <<content, parserVars, identVars, dumperVars>>

\* iterator.next(): the token it yields is put after those yielded before
TokenNext ==
    /\ op = "TokenIterator"
    /\ ~out.ended
    /\ LET n == TokenIteratorNext(out.self)
       IN out' = [self   |-> n.self,
                  tokens |-> IF n.token = None THEN out.tokens
                             ELSE Append(out.tokens, n.token[1]),
                  ended  |-> n.token = None]
    /\ UNCHANGED <<op, content, parserVars, identVars, dumperVars>>

TokenStep == TokenFrom \/ TokenNext

TokenSpec == TokenInit /\ [][TokenStep]_vars

----------------------------------------------------------------------------
(* The errors that carry an offset: each constructor called once on a drawn
   line and offset *)

ErrorInit ==
    /\ content \in ErrorLines
    /\ op = "none"
    /\ out = <<>>
    /\ variables = EmptyMap
    /\ cur_section = None
    /\ line = <<>>
    /\ result = "none"
    /\ calls = 0
    /\ lastDecl = None
    /\ identObj = None
    /\ identCall = NoCall
    /\ tree = Dumper_new.tree
    /\ dumped = <<>>
    /\ generated = None

\* ExpectedIdentifier::new(content, index)
NewExpectedIdentifier ==
    /\ op = "none"
    /\ \E index \in 0..(len(content) + 1) :
          /\ op' = "ExpectedIdentifier::new"
          /\ out' = [index |-> index, value |-> ExpectedIdentifier_new(content, index)]
    /\ UNCHANGED <<content, parserVars, identVars, dumperVars>>

\* ExpectedToken::new(content, index, "=")
NewExpectedToken ==
    /\ op = "none"
    /\ \E index \in 0..(len(content) + 1) :
          /\ op' = "ExpectedToken::new"
          /\ out' = [index |-> index,
                     value |-> ExpectedToken_new(content, index, <<ChEq>>)]
    /\ UNCHANGED <<content, parserVars, identVars, dumperVars>>

\* ExpectedEscape::new(content, index, "\;")
NewExpectedEscape ==
    /\ op = "none"
    /\ \E index \in 0..(len(content) + 1) :
          /\ op' = "ExpectedEscape::new"
          /\ out' = [index |-> index,
                     value |-> ExpectedEscape_new(content, index, <<ChBackslash, ChSemi>>)]
    /\ UNCHANGED <<content, parserVars, identVars, dumperVars>>

\* UnexpectedToken::new(content, index)
NewUnexpectedToken ==
    /\ op = "none"
    /\ \E index \in 0..(len(content) + 1) :
          /\ op' = "UnexpectedToken::new"
          /\ out' = [index |-> index, value |-> UnexpectedToken_new(content, index)]
    /\ UNCHANGED <<content, parserVars, identVars, dumperVars>>

ErrorNext ==
    NewExpectedIdentifier \/ NewExpectedToken \/ NewExpectedEscape \/ NewUnexpectedToken

ErrorSpec == ErrorInit /\ [][ErrorNext]_vars

----------------------------------------------------------------------------
(* The parser: parse_line called line after line on one Parser *)

Init ==
    /\ content = <<>>
    /\ op = "none"
    /\ out = <<>>
    /\ variables = Parser_new.variables
    /\ cur_section = Parser_new.cur_section
    /\ line = <<>>
    /\ result = [tag |-> "None"]
    /\ calls = 0
    /\ lastDecl = None
    /\ identObj = None
    /\ identCall = NoCall
    /\ tree = Dumper_new.tree
    /\ dumped = <<>>
    /\ generated = None

\* the first character of the line after its leading whitespace, if any
FirstChar(l) == IF trim_start(l) = <<>> THEN None ELSE Some(trim_start(l)[1])

NoResult == [tag |-> "None"]

\* parser.parse_line(l) for the next line l of the input; the value returned
\* borrows l until the caller has looked at it
ParseLine ==
    /\ calls < MaxCalls
    /\ result = NoResult
    /\ \E l \in Lines :
          LET r == parse_line([variables |-> variables, cur_section |-> cur_section], l)
          IN /\ line' = l
             /\ result' = r.result
             /\ variables' = r.self.variables
             /\ cur_section' = r.self.cur_section
             /\ lastDecl' = IF r.result.tag = "Ok" /\ FirstChar(l) = Some(ChLBracket)
                            THEN Some(l)
                            ELSE lastDecl
    /\ calls' = calls + 1
    /\ UNCHANGED <<codecVars, identVars, dumperVars>>

\* the caller has looked at the value returned, Ok or Err, and goes on to the
\* next line with the same Parser; a panic ends the run
NextLine ==
    /\ result.tag \in {"Ok", "Err"}
    /\ line' = <<>>
    /\ result' = NoResult
    /\ UNCHANGED <<variables, cur_section, calls, lastDecl, codecVars, identVars, dumperVars>>

Next == ParseLine \/ NextLine

Spec == Init /\ [][Next]_vars

----------------------------------------------------------------------------
(* One Dumper: Dumper::dump called a number of times, then Dumper::generate,
   which consumes it; the text generated is then given line by line to a new
   Parser *)

DumperInit ==
    /\ content = <<>>
    /\ op = "none"
    /\ out = <<>>
    /\ variables = EmptyMap
    /\ cur_section = None
    /\ line = <<>>
    /\ result = NoResult
    /\ calls = 0
    /\ lastDecl = None
    /\ identObj = None
    /\ identCall = NoCall
    /\ tree = Dumper_new.tree
    /\ dumped = <<>>
    /\ generated = None

\* dumper.dump(identifier, Value::Raw(value))
Dump ==
    /\ generated = None
    /\ Len(dumped) < MaxDumps
    /\ \E identifier \in DumpIdentifiers, value \in DumpValues :
          /\ tree' = dump([tree |-> tree], identifier, value).tree
          /\ dumped' = Append(dumped, [identifier |-> identifier, value |-> value])
    /\ UNCHANGED <<generated, codecVars, parserVars, identVars>>

\* dumper.generate()
Generate ==
    /\ generated = None
    /\ generated' = Some(generate([tree |-> tree]))
    /\ UNCHANGED <<tree, dumped, codecVars, parserVars, identVars>>

\* the lines of a text, each ended by a newline or by the end of the text
RECURSIVE DocLines(_)
DocLines(doc) ==
    IF doc = <<>> THEN <<>>
    ELSE IF \A j \in 1..Len(doc) : doc[j] # ChLf THEN <<doc>>
    ELSE LET k == CHOOSE i \in 1..Len(doc) :
                     doc[i] = ChLf /\ \A j \in 1..(i - 1) : doc[j] # ChLf
         IN <<SubSeq(doc, 1, k - 1)>> \o DocLines(SubSeq(doc, k + 1, Len(doc)))

\* parser.parse_line(l) for the next line l of the generated text, on a
\* Parser that was new before the first line
FeedLine ==
    /\ generated # None
    /\ result.tag # "Panic"
    /\ calls < Len(DocLines(generated[1]))
    /\ LET l == DocLines(generated[1])[calls + 1]
           r == parse_line([variables |-> variables, cur_section |-> cur_section], l)
       IN /\ line' = l
          /\ result' = r.result
          /\ variables' = r.self.variables
          /\ cur_section' = r.self.cur_section
          /\ lastDecl' = IF r.result.tag = "Ok" /\ FirstChar(l) = Some(ChLBracket)
                         THEN Some(l)
                         ELSE lastDecl
    /\ calls' = calls + 1
    /\ UNCHANGED <<codecVars, identVars, dumperVars>>

DumperNext == Dump \/ Generate \/ FeedLine

DumperSpec == DumperInit /\ [][DumperNext]_vars

----------------------------------------------------------------------------
(* One HashMap<Identifier, Value>: entries are inserted, then Cache::from is
   applied to it, as Tree::from_data does. Only the keys are kept, a Cache
   does not read the values *)

CacheInit ==
    /\ content = <<>>
    /\ op = "none"
    /\ out = [data |-> {}, cache |-> None]
    /\ variables = EmptyMap
    /\ cur_section = None
    /\ line = <<>>
    /\ result = "none"
    /\ calls = 0
    /\ lastDecl = None
    /\ identObj = None
    /\ identCall = NoCall
    /\ tree = Dumper_new.tree
    /\ dumped = <<>>
    /\ generated = None

\* data.insert(identifier, value)
CacheInsert ==
    /\ out.cache = None
    /\ Cardinality(out.data) < MaxKeys
    /\ \E identifier \in CacheIdentifiers :
          out' = [out EXCEPT !.data = @ \cup {identifier}]
    /\ op' = "insert"
    /\ UNCHANGED <<content, parserVars, identVars, dumperVars>>

\* Cache::from(&data)
CacheFrom ==
    /\ out.cache = None
    /\ \E order \in Orders(out.data) :
          out' = [out EXCEPT !.cache = Some(Cache_from(order))]
    /\ op' = "Cache::from"
    /\ UNCHANGED <<content, parserVars, identVars, dumperVars>>

CacheNext == CacheInsert \/ CacheFrom

CacheSpec == CacheInit /\ [][CacheNext]_vars

----------------------------------------------------------------------------
(* One MininipSectionIterator and its caller: mininipNextSection and
   mininipNextOwnedSection in any order, then mininipDestroySectionIterator.
   The caller gives each handle it got from mininipNextOwnedSection to
   mininipDestroySection once, at any time, and no other handle.
   out.owned are the handles mininipNextOwnedSection returned, out.released
   those the caller has destroyed, out.ret the value of the last call on the
   iterator *)

FfiInit ==
    /\ content = <<>>
    /\ op = "mininipCreateSectionIterator"
    /\ \E n \in 0..MaxSections :
          out = [iter |-> [iterator |-> n, last_allocated |-> NULL],
                 heap |-> <<>>, ret |-> NULL, owned |-> {}, released |-> {},
                 ncalls |-> 0]
    /\ variables = EmptyMap
    /\ cur_section = None
    /\ line = <<>>
    /\ result = "none"
    /\ calls = 0
    /\ lastDecl = None
    /\ identObj = None
    /\ identCall = NoCall
    /\ tree = Dumper_new.tree
    /\ dumped = <<>>
    /\ generated = None

NextSection ==
    /\ op # "mininipDestroySectionIterator"
    /\ out.ncalls < MaxIterCalls
    /\ LET r == mininipNextSection(out.iter, out.heap)
       IN out' = [out EXCEPT !.iter = r.iter, !.heap = r.heap, !.ret = r.ret,
                             !.ncalls = @ + 1]
    /\ op' = "mininipNextSection"
    /\ UNCHANGED <<content, parserVars, identVars, dumperVars>>

NextOwnedSection ==
    /\ op # "mininipDestroySectionIterator"
    /\ out.ncalls < MaxIterCalls
    /\ LET r == mininipNextOwnedSection(out.iter, out.heap)
       IN out' = [out EXCEPT !.iter = r.iter, !.heap = r.heap, !.ret = r.ret,
                             !.owned = IF r.ret # NULL THEN @ \cup {r.ret} ELSE @,
                             !.ncalls = @ + 1]
    /\ op' = "mininipNextOwnedSection"
    /\ UNCHANGED <<content, parserVars, identVars, dumperVars>>

\* mininipDestroySection(h) by the caller
DestroySection ==
    /\ \E h \in out.owned \ out.released :
          out' = [out EXCEPT !.heap = ffi_destroy(out.heap, h),
                             !.released = @ \cup {h}]
    /\ UNCHANGED <<op, content, parserVars, identVars, dumperVars>>

DestroySectionIterator ==
    /\ op # "mininipDestroySectionIterator"
    /\ out' = [out EXCEPT !.heap = mininipDestroySectionIterator(out.iter, out.heap)]
    /\ op' = "mininipDestroySectionIterator"
    /\ UNCHANGED <<content, parserVars, identVars, dumperVars>>

FfiNext == NextSection \/ NextOwnedSection \/ DestroySection \/ DestroySectionIterator

FfiSpec == FfiInit /\ [][FfiNext]_vars

----------------------------------------------------------------------------
(* Properties of the parser *)

\* s without its leading and trailing whitespace
Trimmed(s) ==
    LET keep == {k \in 1..Len(s) : ~is_whitespace(s[k])}
    IN IF keep = {} THEN <<>>
       ELSE SubSeq(s, CHOOSE k \in keep : \A j \in keep : k <= j,
                      CHOOSE k \in keep : \A j \in keep : k >= j)

\* the identifier grammar: an ASCII letter, then ASCII letters, digits and '_'
Letters == (65..90) \cup (97..122)
Digits == 48..57
IdentGrammar(s) ==
    /\ s # <<>>
    /\ s[1] \in Letters
    /\ \A k \in 2..Len(s) : s[k] \in Letters \cup Digits \cup {ChUnderscore}

\* the positions of character c in s
Positions(s, c) == {k \in 1..Len(s) : s[k] = c}
Min(S) == CHOOSE k \in S : \A j \in S : k <= j

TextBefore(s, k) == SubSeq(s, 1, k - 1)
TextAfter(s, k) == SubSeq(s, k + 1, Len(s))

\* s cut at its first ';' that no backslash escapes
CutComment(s) ==
    LET semis == {k \in Positions(s, ChSemi) : BackslashRun(s, k - 1) % 2 = 0}
    IN IF semis = {} THEN s ELSE TextBefore(s, Min(semis))

\* C9: for an assignment line whose text before the first '=' trims to a valid
\* identifier I and whose text after it, cut at the first unescaped ';' and
\* trimmed, decodes to D, parse_line returns Ok and the table then maps
\* (current_section, I) to D, every other entry being unchanged
C9_AssignmentStep ==
    LET l == line'
    IN (calls' = calls + 1 /\ Positions(l, ChEq) # {}) =>
        LET eq  == Min(Positions(l, ChEq))
            I   == Trimmed(TextBefore(l, eq))
            D   == parse_str(Trimmed(CutComment(TextAfter(l, eq))))
            key == [section |-> cur_section, name |-> I]
        IN (IdentGrammar(I) /\ D.ok) =>
              /\ result'.tag = "Ok"
              /\ DOMAIN variables' = DOMAIN variables \cup {key}
              /\ variables'[key] = D.val
              /\ \A k \in DOMAIN variables \ {key} : variables'[k] = variables[k]

C9_Assignment == [][C9_AssignmentStep]_vars

C9_Witness ==
    /\ result.tag = "Ok"
    /\ line = <<ChLowerA, ChSpace, ChEq, ChSpace, ChLowerA, ChSpace>>
    /\ cur_section = Some(<<ChLowerB>>)
    /\ [section |-> Some(<<ChLowerB>>), name |-> <<ChLowerA>>] \in DOMAIN variables
    /\ variables[[section |-> Some(<<ChLowerB>>), name |-> <<ChLowerA>>]] = <<ChLowerA>>
    /\ Cardinality(DOMAIN variables) = 2

\* a line dispatched to assignment handling
IsAssignmentLine(l) == FirstChar(l) \notin {None, Some(ChSemi), Some(ChLBracket)}

\* a line dispatched to section handling
IsSectionLine(l) == FirstChar(l) = Some(ChLBracket)

\* the section a successful declaration names: the text between '[' and the
\* first ']' that follows; the global section when there was no declaration
SectionNamed(decl) ==
    IF decl = None THEN None
    ELSE LET l == trim_start(decl[1])
         IN Some(SubSeq(l, 2, Min(Positions(l, ChRBracket)) - 1))

\* C10: each successful assignment is stored under the section named by the
\* most recent successful section declaration before it (the global section
\* if there is none); only a successful section declaration changes the
\* current section
C10_SectionStep ==
    (calls' = calls + 1) =>
        /\ (result'.tag = "Ok" /\ IsAssignmentLine(line')) =>
              \E key \in DOMAIN variables' :
                  /\ key.section = SectionNamed(lastDecl)
                  /\ key.name = Trimmed(TextBefore(line', Min(Positions(line', ChEq))))
                  /\ DOMAIN variables' = DOMAIN variables \cup {key}
                  /\ \A k \in DOMAIN variables \ {key} : variables'[k] = variables[k]
        /\ (result'.tag = "Ok" /\ IsSectionLine(line'))
              => cur_section' = SectionNamed(Some(line'))
        /\ ~(result'.tag = "Ok" /\ IsSectionLine(line'))
              => cur_section' = cur_section

FirstEq(l) == Min(Positions(l, ChEq))
IdentText(l) == Trimmed(TextBefore(l, FirstEq(l)))
ValueText(l) == Trimmed(CutComment(TextAfter(l, FirstEq(l))))

\* C11: when an assignment line names an identifier that the table already
\* holds under the current section and its value decodes, parse_line returns
\* Ok (there is no duplicate-key error), the table keeps the same keys, and
\* the entry holds the value just assigned; a call that does not return Ok
\* leaves the entry of the last successful assignment in place
C11_ReassignStep ==
    LET l == line'
    IN (calls' = calls + 1 /\ IsAssignmentLine(l) /\ Positions(l, ChEq) # {}) =>
        LET key == [section |-> cur_section, name |-> IdentText(l)]
            D   == parse_str(ValueText(l))
        IN (key \in DOMAIN variables) =>
              /\ DOMAIN variables' = DOMAIN variables
              /\ D.ok => (result'.tag = "Ok" /\ variables'[key] = D.val)
              /\ result'.tag # "Ok" => variables'[key] = variables[key]
              /\ ~D.ok => result'.tag = "Err"

C11_LastAssignmentWins == [][C11_ReassignStep]_vars

C11_Witness ==
    /\ calls = 2
    /\ result.tag = "Ok"
    /\ line = <<ChLowerA, ChEq, ChLowerB>>
    /\ lastDecl = None
    /\ DOMAIN variables = {[section |-> None, name |-> <<ChLowerA>>]}
    /\ variables[[section |-> None, name |-> <<ChLowerA>>]] = <<ChLowerB>>

\* C12: parse_line on an empty line, on a line of whitespace only, and on a
\* line whose first character after the leading whitespace is ';' returns Ok
\* and leaves the table and the current section as they were
C12_SkipStep ==
    LET l    == line'
        text == {k \in 1..Len(l) : ~is_whitespace(l[k])}
    IN (calls' = calls + 1 /\ (text = {} \/ l[Min(text)] = ChSemi)) =>
          /\ result'.tag = "Ok"
          /\ variables' = variables
          /\ cur_section' = cur_section

C12_SkippedLines == [][C12_SkipStep]_vars

C12_Witness ==
    /\ calls = 3
    /\ result.tag = "Ok"
    /\ line = <<ChSemi, ChLBracket, ChLowerA, ChRBracket>>
    /\ cur_section = Some(<<ChLowerB>>)
    /\ DOMAIN variables = {[section |-> Some(<<ChLowerB>>), name |-> <<ChLowerB>>]}

\* C13: a line dispatched to assignment handling that holds no '=' gives
\* Err(ExpectedToken) expecting "=", at the byte offset right after the
\* identifier token: the index of the first whitespace after the token, or
\* the end of the line when the token runs to the end of the line
C13_MissingEquals ==
    (result # NoResult /\ IsAssignmentLine(line) /\ Positions(line, ChEq) = {}) =>
        /\ result.tag = "Err"
        /\ result.kind = "ExpectedToken"
        /\ result.fields.tokens = <<ChEq>>
        /\ LET l  == result.fields.line
               ws == {k \in 1..Len(l) : is_whitespace(l[k])}
           IN /\ l = SubSeq(line, Len(line) - Len(l) + 1, Len(line))
              /\ l # <<>> /\ ~is_whitespace(l[1])
              /\ result.fields.index =
                    IF ws = {} THEN len(l) ELSE ByteOffset(l, Min(ws))

\* the line after its leading whitespace
Effective(l) == SubSeq(l, Min({k \in 1..Len(l) : ~is_whitespace(l[k])}), Len(l))

\* C14: for a line that begins with '[': with no ']' (the one-character line
\* "[" included) parse_line gives Err(ExpectedToken) expecting "]"; with
\* nothing between the brackets it gives Err(ExpectedIdentifier); with text
\* between the brackets that is not an identifier, Err(InvalidIdentifier)
C14_MalformedSection ==
    (result # NoResult /\ IsSectionLine(line)) =>
        LET l      == Effective(line)
            closes == Positions(l, ChRBracket)
        IN /\ closes = {} =>
                 /\ result.tag = "Err"
                 /\ result.kind = "ExpectedToken"
                 /\ result.fields.tokens = <<ChRBracket>>
           /\ (closes # {} /\ Min(closes) = 2) =>
                 /\ result.tag = "Err"
                 /\ result.kind = "ExpectedIdentifier"
           /\ (closes # {} /\ Min(closes) > 2
                   /\ ~IdentGrammar(Trimmed(SubSeq(l, 2, Min(closes) - 1)))) =>
                 /\ result.tag = "Err"
                 /\ result.kind = "InvalidIdentifier"

\* C15: when a valid "[name]" is followed, before any ';', by a character
\* that is not whitespace, parse_line gives Err(UnexpectedToken) whose byte
\* offset is the index in the line of the first such character and whose
\* token is that character
C15_TextAfterSection ==
    (result # NoResult /\ IsSectionLine(line) /\ Positions(Effective(line), ChRBracket) # {}) =>
        LET l     == Effective(line)
            close == Min(Positions(l, ChRBracket))
            semis == {k \in Positions(l, ChSemi) : k > close}
            stop  == IF semis = {} THEN Len(l) + 1 ELSE Min(semis)
            extra == {k \in (close + 1)..(stop - 1) : ~is_whitespace(l[k])}
        IN (close > 2 /\ IdentGrammar(Trimmed(SubSeq(l, 2, close - 1))) /\ extra # {}) =>
              /\ result.tag = "Err"
              /\ result.kind = "UnexpectedToken"
              /\ result.fields.index = ByteOffset(l, Min(extra))
              /\ result.fields.token = l[Min(extra)]

\* a position of s that holds a '=' which no backslash escapes
UnescapedEq(s) == {k \in Positions(s, ChEq) : BackslashRun(s, k - 1) % 2 = 0}

\* C16: an assignment line whose value part, the text after the first '=' and
\* before the first unescaped ';', holds a further unescaped '=' is rejected:
\* parse_line returns Err and the table gains no entry
C16_SecondEqualsStep ==
    LET l == line'
    IN (/\ calls' = calls + 1
        /\ IsAssignmentLine(l)
        /\ Positions(l, ChEq) # {}
        /\ UnescapedEq(CutComment(TextAfter(l, FirstEq(l)))) # {}) =>
              /\ result'.tag = "Err"
              /\ variables' = variables
              /\ cur_section' = cur_section

C16_SecondEquals == [][C16_SecondEqualsStep]_vars

C16_Witness ==
    /\ calls = 2
    /\ result.tag = "Err"
    /\ line = <<ChLowerA, ChEq, ChLowerA, ChEq, ChLowerA>>
    /\ DOMAIN variables = {[section |-> None, name |-> <<ChLowerA>>]}

----------------------------------------------------------------------------
(* Properties of the text helpers *)

\* C17: on a single line (no newline before the comment) ignore_comment
\* returns the prefix of its input that ends just before the first ';' not
\* preceded by an escaping backslash, an escaped backslash escaping nothing,
\* and the whole input when there is no such ';'
C17_IgnoreComment ==
    (op = "ignore_comment" /\ \A k \in 1..Len(CutComment(content)) : content[k] # ChLf)
        => out = Some(CutComment(content))

C17_Witness ==
    /\ op = "ignore_comment"
    /\ content = <<118, 97, 108, ChBackslash, ChSemi, ChLowerX, ChSemi, 99>>
    /\ out = Some(<<118, 97, 108, ChBackslash, ChSemi, ChLowerX>>)

----------------------------------------------------------------------------
(* Properties of Identifier *)

\* a text that Identifier::is_valid is specified to accept
Acceptable(t) == IdentGrammar(Trimmed(t))

\* an Identifier whose name, and section when present, are acceptable
WellFormed(i) ==
    /\ Acceptable(i.name)
    /\ i.section # None => Acceptable(i.section[1])

\* C19: after every call of Identifier::new, change_name and change_section
\* the Identifier that exists has an acceptable name and, when present, an
\* acceptable section; a call given an unacceptable name or section panics
\* and leaves the Identifier as it was, and any other call stores what it
\* was given
C19_IdentifierStep ==
    LET call == identCall'
    IN /\ identObj' # None => WellFormed(identObj'[1])
       /\ call.op = "new" =>
             IF Acceptable(call.name) /\ (call.section # None => Acceptable(call.section[1]))
             THEN ~call.panicked
                  /\ identObj' = Some([section |-> call.section, name |-> call.name])
             ELSE call.panicked /\ identObj' = identObj
       /\ call.op = "change_name" =>
             IF Acceptable(call.name)
             THEN ~call.panicked
                  /\ identObj' = Some([identObj[1] EXCEPT !.name = call.name])
             ELSE call.panicked /\ identObj' = identObj
       /\ call.op = "change_section" =>
             IF call.section # None => Acceptable(call.section[1])
             THEN ~call.panicked
                  /\ identObj' = Some([identObj[1] EXCEPT !.section = call.section])
             ELSE call.panicked /\ identObj' = identObj

C19_IdentifierValid == [][C19_IdentifierStep]_vars

C19_Witness ==
    /\ identCall = [op |-> "change_name", name |-> <<ChLowerA, ChSpace, ChLowerB>>,
                    panicked |-> TRUE]
    /\ identObj = Some([section |-> Some(<<ChLowerA, ChUnderscore>>),
                        name |-> <<ChLowerB, 49>>])

----------------------------------------------------------------------------
(* Properties of Dumper *)

\* the pieces of s between the occurrences of the separator x
RECURSIVE SplitOn(_, _)
SplitOn(s, x) ==
    IF \A k \in 1..Len(s) : s[k] # x THEN <<s>>
    ELSE LET k == Min(Positions(s, x))
         IN <<SubSeq(s, 1, k - 1)>> \o SplitOn(SubSeq(s, k + 1, Len(s)), x)

\* the line that stands for a dumped couple
EntryLine(e) == e.identifier.name \o <<ChEq>> \o EncodedStr(e.value)

\* the lines of the couples dumped under section sec, in the order dumped
RECURSIVE EntryLines(_, _)
EntryLines(d, sec) ==
    IF d = <<>> THEN <<>>
    ELSE (IF Head(d).identifier.section = sec THEN <<EntryLine(Head(d))>> ELSE <<>>)
         \o EntryLines(Tail(d), sec)

\* a and b hold the same elements the same number of times
SameBag(a, b) ==
    /\ Len(a) = Len(b)
    /\ \A i \in 1..Len(a) :
          Cardinality({j \in 1..Len(a) : a[j] = a[i]})
              = Cardinality({j \in 1..Len(b) : b[j] = a[i]})

\* section name a comes before section name b
NameBefore(a, b) ==
    \/ Len(a) < Len(b) /\ SubSeq(b, 1, Len(a)) = a
    \/ \E k \in 1..Len(a) :
          /\ k <= Len(b)
          /\ SubSeq(a, 1, k - 1) = SubSeq(b, 1, k - 1)
          /\ a[k] < b[k]

\* the sections dumped into, the global one left out
NamedSections(d) ==
    {d[k].identifier.section[1] : k \in {j \in 1..Len(d) : d[j].identifier.section # None}}

HasGlobals(d) == \E k \in 1..Len(d) : d[k].identifier.section = None

\* the place of the block of named section sec among the blocks of the text
BlockIndex(d, sec) ==
    (IF HasGlobals(d) THEN 1 ELSE 0)
    + Cardinality({t \in NamedSections(d) : NameBefore(t, sec)}) + 1

\* C20: the generated text is made of blocks of lines, each line ended by a
\* newline and the blocks separated by one blank line: first the block of
\* the global couples, then one block for each named section in ascending
\* order of the names, made of the header [section] and the couples of that
\* section; each dumped couple is one line name=encoded_value, as many times
\* as it was dumped, and a text that is not empty ends with one newline only
C20_GeneratedStep ==
    (generated = None /\ generated' # None) =>
        LET doc    == generated'[1]
            d      == dumped
            pieces == SplitOn(doc, ChLf)
            blocks == SplitOn(SubSeq(pieces, 1, Len(pieces) - 1), <<>>)
        IN IF d = <<>> THEN doc = <<>>
           ELSE /\ doc # <<>>
                /\ pieces[Len(pieces)] = <<>>
                /\ Len(blocks) = Cardinality(NamedSections(d))
                                  + (IF HasGlobals(d) THEN 1 ELSE 0)
                /\ HasGlobals(d) => SameBag(blocks[1], EntryLines(d, None))
                /\ \A sec \in NamedSections(d) :
                      LET block == blocks[BlockIndex(d, sec)]
                      IN /\ block # <<>>
                         /\ Head(block) = <<ChLBracket>> \o sec \o <<ChRBracket>>
                         /\ SameBag(Tail(block), EntryLines(d, Some(sec)))

C20_Generated == [][C20_GeneratedStep]_vars

\* no name and no section given to Dumper::dump holds a newline
SingleLineNames(d) ==
    \A k \in 1..Len(d) :
        /\ ChLf \notin {d[k].identifier.name[j] : j \in 1..Len(d[k].identifier.name)}
        /\ d[k].identifier.section # None =>
              ChLf \notin {d[k].identifier.section[1][j] :
                              j \in 1..Len(d[k].identifier.section[1])}

\* the name an entry line starts with: its text before the first '='
NameOfLine(l) == SubSeq(l, 1, Min(Positions(l, ChEq)) - 1)

\* the entry lines of a block: its lines but a section header
EntriesOf(block) ==
    IF block # <<>> /\ Head(block) # <<>> /\ Head(block)[1] = ChLBracket
    THEN Tail(block) ELSE block

\* C21: in the block of the global section and in the block of each named
\* section of the generated text, the entries stand in ascending order of
\* their identifier names
C21_EntryOrderStep ==
    (generated = None /\ generated' # None /\ SingleLineNames(dumped)) =>
        LET pieces == SplitOn(generated'[1], ChLf)
            blocks == SplitOn(SubSeq(pieces, 1, Len(pieces) - 1), <<>>)
        IN \A b \in 1..Len(blocks) :
              LET es == EntriesOf(blocks[b])
              IN \A i \in 1..(Len(es) - 1) :
                    \/ NameOfLine(es[i]) = NameOfLine(es[i + 1])
                    \/ NameBefore(NameOfLine(es[i]), NameOfLine(es[i + 1]))

C21_EntryOrder == [][C21_EntryOrderStep]_vars

\* the couples dumped are the entries of a table: no identifier comes twice
IsTable(d) ==
    \A i, j \in 1..Len(d) : d[i].identifier = d[j].identifier => i = j

\* the table whose entries are the couples dumped
TableOf(d) ==
    [key \in {d[k].identifier : k \in 1..Len(d)} |->
        (CHOOSE e \in {d[k] : k \in 1..Len(d)} : e.identifier = key).value]

\* C22: when the entries of a table are dumped and the text generated is
\* given line by line to a new Parser, parse_line returns Ok on every line,
\* and after the last line the table of the Parser has the keys and the
\* values of the table dumped
C22_RoundTripStep ==
    (generated # None /\ calls' = calls + 1
        /\ IsTable(dumped) /\ SingleLineNames(dumped)) =>
        /\ result'.tag = "Ok"
        /\ calls' = Len(SplitOn(generated[1], ChLf)) - 1 => variables' = TableOf(dumped)

C22_DocumentRoundTrip == [][C22_RoundTripStep]_vars

----------------------------------------------------------------------------
(* Properties of the errors *)

\* the number of bytes of a character in UTF-8
Width(c) == IF c < 128 THEN 1 ELSE IF c < 2048 THEN 2 ELSE IF c < 65536 THEN 3 ELSE 4

RECURSIVE Bytes(_)
Bytes(s) == IF s = <<>> THEN 0 ELSE Width(Head(s)) + Bytes(Tail(s))

\* the byte offsets of s at which a character starts
CharStarts(s) == {Bytes(SubSeq(s, 1, k - 1)) : k \in 1..Len(s)}

\* C23: a constructor of an error that carries an offset returns a value
\* only when the offset is the start of a character of the line; with any
\* other offset it panics
C23_OffsetChecked ==
    op \in {"ExpectedIdentifier::new", "ExpectedToken::new",
            "ExpectedEscape::new", "UnexpectedToken::new"} =>
        (out.value.tag # "Panic" => out.index \in CharStarts(content))

----------------------------------------------------------------------------
(* Further properties of the parser *)

\* C24: on a line without a newline parse_line returns Ok or Err: no
\* assertion of the error constructors, of Identifier::new or of
\* parse_section fails
C24_NoPanic ==
    (result # NoResult /\ \A k \in 1..Len(line) : line[k] # ChLf) =>
        result.tag \in {"Ok", "Err"}

\* C27: when parse_line returns Err the table and the current section are
\* what they were before the call
C27_ErrStep ==
    (calls' = calls + 1 /\ result'.tag = "Err") =>
        /\ variables' = variables
        /\ cur_section' = cur_section

C27_ErrLeavesState == [][C27_ErrStep]_vars

C27_Witness ==
    /\ calls = 3
    /\ result.tag = "Err"
    /\ result.kind = "UnexpectedToken"
    /\ IsSectionLine(line)
    /\ cur_section = Some(<<ChLowerB>>)
    /\ DOMAIN variables = {[section |-> Some(<<ChLowerB>>), name |-> <<ChLowerA>>]}

\* C28: every key of the table has a name and, when present, a section that
\* start with an ASCII letter and go on with ASCII letters, digits and '_':
\* no surrounding whitespace is stored
C28_KeysTrimmed ==
    \A key \in DOMAIN variables :
        /\ IdentGrammar(key.name)
        /\ key.section # None => IdentGrammar(key.section[1])

----------------------------------------------------------------------------
(* Properties of TokenIterator *)

\* the number of characters of the token that starts s
UnitLen(s) ==
    IF s[1] # ChBackslash THEN 1
    ELSE IF Len(s) >= 2 /\ s[2] = ChLowerX THEN (IF Len(s) < 8 THEN Len(s) ELSE 8)
    ELSE (IF Len(s) < 2 THEN Len(s) ELSE 2)

\* the tokens of s: a character outside an escape is a Char; a backslash
\* starts an Escape of 2 characters, of 8 when the second one is 'x', or of
\* what is left of s when s ends before
RECURSIVE UnitTokens(_)
UnitTokens(s) ==
    IF s = <<>> THEN <<>>
    ELSE LET n == UnitLen(s)
         IN <<IF s[1] = ChBackslash
              THEN [kind |-> "Escape", s |-> SubSeq(s, 1, n)]
              ELSE [kind |-> "Char", c |-> s[1]]>>
            \o UnitTokens(SubSeq(s, n + 1, Len(s)))

\* C25: the tokens yielded before None are a Char for every character
\* outside an escape and, from each backslash on, one Escape of exactly 2
\* characters, or of exactly 8 when the second one is 'x', whatever the 6
\* characters that follow; an escape cut by the end of the input is yielded
\* as the last token
C25_TokenShapes ==
    (op = "TokenIterator" /\ out.ended) => out.tokens = UnitTokens(content)

\* the text of a token
TokenText(t) == IF t.kind = "Char" THEN <<t.c>> ELSE t.s

RECURSIVE TokenTexts(_)
TokenTexts(ts) == IF ts = <<>> THEN <<>> ELSE TokenText(Head(ts)) \o TokenTexts(Tail(ts))

\* C26: the texts of the tokens yielded, put together, are the part of the
\* input read so far, the escape being accumulated left out, and so the
\* whole input once next has returned None; no Char token holds a
\* backslash, every Escape token starts with a backslash and has at most 8
\* characters, and there are never more tokens than characters
C26_Lossless ==
    op = "TokenIterator" =>
        /\ TokenTexts(out.tokens) \o out.self.escape_seq \o out.self.iterator = content
        /\ out.ended => TokenTexts(out.tokens) = content
        /\ \A k \in 1..Len(out.tokens) :
              LET t == out.tokens[k]
              IN IF t.kind = "Char" THEN t.c # ChBackslash
                 ELSE t.s # <<>> /\ t.s[1] = ChBackslash /\ Len(t.s) <= 8
        /\ Len(out.tokens) <= Len(content)

C26_Witness ==
    /\ op = "TokenIterator"
    /\ out.ended
    /\ content = <<ChBackslash, ChLowerX, ChLowerA, ChLowerA, ChLowerA, ChLowerA,
                   ChLowerA, ChEAcute, ChBackslash>>
    /\ Len(out.tokens) = 2
    /\ out.tokens[2] = [kind |-> "Escape", s |-> <<ChBackslash>>]

----------------------------------------------------------------------------
(* Properties of the Cache *)

\* each element of v is below the next one
Ascending(v) == \A j \in 1..(Len(v) - 1) : NameBefore(v[j], v[j + 1])

Elements(v) == {v[j] : j \in 1..Len(v)}

\* C29: Cache::from(data) gives, as sections, the ascending list without
\* duplicates of the named sections of data and, as keys, a map from each
\* section of data, the global one included when it has entries, to the
\* ascending list of exactly the names of the keys of that section
C29_CacheFrom ==
    op = "Cache::from" =>
        LET c == out.cache[1]
            d == out.data
        IN /\ Ascending(c.sections)
           /\ Elements(c.sections) = {x.section[1] : x \in {y \in d : y.section # None}}
           /\ DOMAIN c.keys = {x.section : x \in d}
           /\ \A s \in DOMAIN c.keys :
                 /\ Ascending(c.keys[s])
                 /\ Elements(c.keys[s]) = {x.name : x \in {y \in d : y.section = s}}

\* two named sections and two global keys, a and a1
C29_Witness ==
    /\ op = "Cache::from"
    /\ out.cache[1].sections = <<<<ChLowerA>>, <<ChLowerB>>>>
    /\ None \in DOMAIN out.cache[1].keys
    /\ out.cache[1].keys[None] = <<<<ChLowerA>>, <<ChLowerA, 49>>>>

----------------------------------------------------------------------------
(* Properties of the section iterator of the C interface *)

\* C30: whatever the order of the calls of mininipNextSection and
\* mininipNextOwnedSection on one iterator, no section handle is ever freed
\* twice; the handle the last call returned, when that call was
\* mininipNextSection, has not been freed; and once the iterator has been
\* destroyed and the caller has freed the handles it owns, every handle
\* allocated has been freed exactly once
C30_HandlesFreedOnce ==
    op \in {"mininipCreateSectionIterator", "mininipNextSection",
            "mininipNextOwnedSection", "mininipDestroySectionIterator"} =>
        /\ \A h \in 1..Len(out.heap) : out.heap[h] <= 1
        /\ op = "mininipNextSection" /\ out.ret # NULL => out.heap[out.ret] = 0
        /\ op = "mininipDestroySectionIterator" /\ out.released = out.owned =>
              \A h \in 1..Len(out.heap) : out.heap[h] = 1

\* the iterator is destroyed after it gave three handles, of which the caller
\* owned the second only, and the caller has freed it
C30_Witness ==
    /\ op = "mininipDestroySectionIterator"
    /\ Len(out.heap) = 3
    /\ out.owned = {2}
    /\ out.released = {2}
    /\ out.ret = 3

====
